---- MODULE Spec2Model ----
(***************************************************************************)
(* Model of the HDFS file-source layer (joinHdfsPath, File,                *)
(* FileSourceFactory, HdfsFileSource).  Each call of a future-returning    *)
(* operation of HdfsFileSource is a slot holding the closure variables of  *)
(* that call, the promise it returned and the state of the client objects  *)
(* (stream, limiter, line reader, sink) created for it.  The client is the *)
(* environment: it delivers callbacks and events in any order.             *)
(*                                                                         *)
(* Text (paths, messages, file content) is a sequence of string tokens;    *)
(* concatenation of text is concatenation of sequences.                    *)
(***************************************************************************)
EXTENDS Integers, Sequences, FiniteSets, TLC

\* ------------------------------------------------------------------ bounds
MaxEvents == 3
MaxBytesArg == 2
MaxLinesArg == 2
MaxHostLen == 4

\* ------------------------------------------------------------ JS values
\* A JavaScript value is a record whose only field names its type.
Undefined == [undef |-> TRUE]
Null == [null |-> TRUE]
Bool(b) == [bool |-> b]
Num(n) == [num |-> n]
Str(s) == [str |-> s]
Buf(s) == [buf |-> s]
ErrorObj(m) == [message |-> m]
FileList(l) == [files |-> l]

IsUndefined(v) == v = Undefined
IsNum(v) == DOMAIN v = {"num"}

\* JavaScript truthiness of the values that reach an `if` in this code.
Truthy(v) ==
    CASE DOMAIN v = {"undef"} -> FALSE
      [] DOMAIN v = {"null"} -> FALSE
      [] DOMAIN v = {"bool"} -> v.bool
      [] DOMAIN v = {"num"} -> v.num # 0
      [] DOMAIN v = {"str"} -> v.str # <<>>
      [] OTHER -> TRUE

\* ------------------------------------------------------------ path joiner
hdfsRootPath == <<"/">>

joinHdfsPath_NoRootCase(parent, child) == parent \o <<"/">> \o child

joinHdfsPath(parent, child) ==
    IF parent = hdfsRootPath
    THEN <<"/">> \o child
    ELSE parent \o <<"/">> \o child

\* ------------------------------------------------------------ File entity
File(path, isDirectory) == [path |-> path, isDirectory |-> isDirectory]

createPath(path, fileName) == joinHdfsPath(path, fileName)

createChild(parent, fileName, isDirectory) ==
    File(createPath(parent.path, fileName), isDirectory)

createFile(parent, fileName) == createChild(parent, fileName, FALSE)

createDirectory(parent, fileName) == createChild(parent, fileName, TRUE)

\* File.getBasename / fspath.basename: the last segment of a path, trailing
\* separators dropped.
RECURSIVE basename(_)
basename(path) ==
    IF path = <<>> THEN <<>>
    ELSE IF path[Len(path)] = "/" THEN basename(SubSeq(path, 1, Len(path) - 1))
    ELSE IF \E i \in 1..Len(path) : path[i] = "/"
         THEN LET last == CHOOSE i \in 1..Len(path) :
                              /\ path[i] = "/"
                              /\ \A j \in (i + 1)..Len(path) : path[j] # "/"
              IN SubSeq(path, last + 1, Len(path))
         ELSE path

\* ------------------------------------------------------------ text helpers
EOL == "\n"

\* Array.prototype.join
RECURSIVE join(_, _)
join(list, sep) ==
    IF list = <<>> THEN <<>>
    ELSE IF Len(list) = 1 THEN list[1]
    ELSE list[1] \o <<sep>> \o join(Tail(list), sep)

\* Buffer.concat
RECURSIVE BufferConcat(_)
BufferConcat(list) ==
    IF list = <<>> THEN <<>> ELSE list[1] \o BufferConcat(Tail(list))

\* String.prototype.includes, on tokens
includes(text, token) == \E i \in 1..Len(text) : text[i] = token

\* Error.prototype.toString
toString(err) == <<"Error: ">> \o err.message

\* utils.getErrorMessage
getErrorMessage(err) == err.message

\* bytes(): a number of bytes below 1KB is printed as <n>B; a value that is
\* no number gives null, which a template prints as "null".
bytes(v) == IF IsNum(v) THEN <<ToString(v.num) \o "B">> ELSE <<"null">>

CapPhrase == "Stream exceeded specified max"

\* stream-meter's error once more than maxBytes bytes went through.
MeterError(maxBytes) ==
    ErrorObj(<<CapPhrase, " of ", ToString(maxBytes), " bytes.">>)

\* ------------------------------------------------------------ promises
Pending == [state |-> "pending", value |-> Undefined]

resolve_Overwrite(p, v) == [state |-> "resolved", value |-> v]

\* resolve and reject of a promise: the first settlement stands.
resolve(p, v) ==
    IF p.state = "pending" THEN [state |-> "resolved", value |-> v] ELSE p

reject(p, v) ==
    IF p.state = "pending" THEN [state |-> "rejected", value |-> v] ELSE p

\* ------------------------------------------------------------ inputs
CallIds == {1, 2}
Paths == {hdfsRootPath, <<"/", "p">>}
Names == {<<"d">>}
Chunks == {<<"a", "b">>, <<"c">>}
Lines == {<<"x">>, <<"y">>}
Errors == {ErrorObj(<<"boom">>), ErrorObj(<<CapPhrase, " of 1 bytes.">>)}
Locations == {Str(<<"/", "p", "/", "f">>), Undefined}
HdfsFileStatus(type, pathSuffix) == [type |-> type, pathSuffix |-> pathSuffix]
Listings ==
    { <<>>,
      <<HdfsFileStatus("DIRECTORY", <<"d">>), HdfsFileStatus("FILE", <<"f">>)>> }
MaxBytesArgs == {Undefined} \cup {Num(n) : n \in 0..MaxBytesArg}
MaxLinesArgs == 0..MaxLinesArg
RecursiveArgs == {Undefined, Bool(FALSE), Bool(TRUE)}
LocalFiles == {File(<<"/", "tmp", "/", "f">>, FALSE)}

\* ------------------------------------------------------------ state
VARIABLES
    calls,      \* calls[c]: the call in slot c, its closure variables and promise
    log,        \* log[c]: the callbacks and events the client delivered to call c
    nEvents,    \* number of client callbacks and events delivered so far
    fileIn,     \* the parent and file name handed to a File constructor function
    fileOut,    \* what that function returned
    factory     \* the run of createHdfsFileSource: its position and its objects

vars == <<calls, log, nEvents, fileIn, fileOut, factory>>

\* A slot no call has used yet.
Idle ==
    [ op |-> "idle", args |-> Undefined, request |-> Undefined,
      promise |-> Pending,
      error |-> Undefined, data |-> <<>>,
      lineCount |-> 0, lineData |-> <<>>, errorMsg |-> Undefined,
      metered |-> FALSE, meterBytes |-> 0, meterOpen |-> FALSE,
      finishListener |-> FALSE, readerClosed |-> FALSE ]

\* The state of a call right after `new Promise(...)` ran its executor.
NewCall(op, args, request) ==
    [Idle EXCEPT !.op = op, !.args = args, !.request = request]

Event(name, arg) == [ev |-> name, arg |-> arg]

Init ==
    /\ calls = [c \in CallIds |-> Idle]
    /\ log = [c \in CallIds |-> <<>>]
    /\ nEvents = 0
    /\ fileIn = Undefined
    /\ fileOut = Undefined
    /\ factory = Undefined

\* Slots are taken in order; a slot is used by one call.
CanStart(c) ==
    /\ calls[c].op = "idle"
    /\ \A d \in CallIds : d < c => calls[d].op # "idle"

Start(c, k) ==
    /\ CanStart(c)
    /\ calls' = [calls EXCEPT ![c] = k]
    /\ UNCHANGED <<log, nEvents, fileIn, fileOut, factory>>

Deliver_Shared(c, e, k) ==
    /\ nEvents < MaxEvents
    /\ nEvents' = nEvents + 1
    /\ log' = [log EXCEPT ![c] = Append(@, e)]
    /\ calls' = [d \in CallIds |->
                    IF d = c THEN k
                    ELSE IF calls[d].op = calls[c].op
                    THEN [calls[d] EXCEPT !.error = k.error, !.data = k.data,
                                          !.lineCount = k.lineCount,
                                          !.lineData = k.lineData,
                                          !.errorMsg = k.errorMsg]
                    ELSE calls[d]]
    /\ UNCHANGED <<fileIn, fileOut, factory>>

\* The client delivers event e to call c, and the handlers leave the call as k.
Deliver(c, e, k) ==
    /\ nEvents < MaxEvents
    /\ nEvents' = nEvents + 1
    /\ log' = [log EXCEPT ![c] = Append(@, e)]
    /\ calls' = [calls EXCEPT ![c] = k]
    /\ UNCHANGED <<fileIn, fileOut, factory>>

\* ------------------------------------------------------------ enumerateFiles
MapFiles_Reversed(path, files) ==
    [i \in 1..Len(files) |->
        File(createPath(path, files[Len(files) + 1 - i].pathSuffix),
             files[Len(files) + 1 - i].type = "DIRECTORY")]

\* files.map(file => new File(File.createPath(path, pathSuffix), type === 'DIRECTORY'))
MapFiles(path, files) ==
    [i \in 1..Len(files) |->
        File(createPath(path, files[i].pathSuffix), files[i].type = "DIRECTORY")]

enumerateFiles(c, path) ==
    Start(c, NewCall("enumerateFiles", [path |-> path],
                     [method |-> "readdir", path |-> path]))

readdir_callback(k, error, files) ==
    IF Truthy(error)
    THEN [k EXCEPT !.promise = reject(@, Str(error.message))]
    ELSE [k EXCEPT !.promise = resolve(@, FileList(MapFiles(k.args.path, files)))]

ReaddirCallback(c, error, files) ==
    /\ calls[c].op = "enumerateFiles"
    /\ Deliver(c, Event("callback", [error |-> error, files |-> files]),
               readdir_callback(calls[c], error, files))

\* ------------------------------------------------------------ mkdir
mkdir(c, dirName, remoteBasePath) ==
    Start(c, NewCall("mkdir",
                     [dirName |-> dirName, remoteBasePath |-> remoteBasePath],
                     [method |-> "mkdir",
                      path |-> joinHdfsPath(remoteBasePath, dirName)]))

mkdir_callback_MessageText(k, err) ==
    IF Truthy(err)
    THEN [k EXCEPT !.promise = reject(@, Str(err.message))]
    ELSE [k EXCEPT !.promise = resolve(@, Undefined)]

mkdir_callback(k, err) ==
    IF Truthy(err)
    THEN [k EXCEPT !.promise = reject(@, err)]
    ELSE [k EXCEPT !.promise = resolve(@, Undefined)]

MkdirCallback(c, err) ==
    /\ calls[c].op = "mkdir"
    /\ Deliver(c, Event("callback", err), mkdir_callback(calls[c], err))

\* ------------------------------------------------------------ delete
DefaultRecursive_True(recursive) ==
    IF IsUndefined(recursive) THEN TRUE ELSE recursive.bool

\* The default parameter `recursive: boolean = false`.
DefaultRecursive(recursive) ==
    IF IsUndefined(recursive) THEN FALSE ELSE recursive.bool

delete(c, path, recursive) ==
    Start(c, NewCall("delete", [path |-> path, recursive |-> recursive],
                     [method |-> "rmdir", path |-> path,
                      recursive |-> DefaultRecursive(recursive)]))

rmdir_callback(k, error) ==
    IF Truthy(error)
    THEN [k EXCEPT !.promise = reject(@, error)]
    ELSE [k EXCEPT !.promise = resolve(@, Undefined)]

RmdirCallback(c, error) ==
    /\ calls[c].op = "delete"
    /\ Deliver(c, Event("callback", error), rmdir_callback(calls[c], error))

\* ------------------------------------------------------------ exists
exists(c, path) ==
    Start(c, NewCall("exists", [path |-> path],
                     [method |-> "exists", path |-> path]))

exists_callback_RejectFalse(k, result) ==
    IF result
    THEN [k EXCEPT !.promise = resolve(@, Bool(result))]
    ELSE [k EXCEPT !.promise = reject(@, Bool(result))]

exists_callback(k, result) ==
    [k EXCEPT !.promise = resolve(@, Bool(result))]

ExistsCallback(c, result) ==
    /\ calls[c].op = "exists"
    /\ Deliver(c, Event("callback", Bool(result)), exists_callback(calls[c], result))

\* ------------------------------------------------------------ readFile
\* `if (maxBytes)`: whether the stream is piped through meter(maxBytes).
readFile_Metered(maxBytes) == Truthy(maxBytes)

readFile(c, path, maxBytes) ==
    Start(c, [NewCall("readFile", [path |-> path, maxBytes |-> maxBytes],
                      [method |-> "createReadStream", path |-> path])
              EXCEPT !.metered = readFile_Metered(maxBytes),
                     !.meterOpen = readFile_Metered(maxBytes),
                     !.finishListener = TRUE])

readFile_onError(k, err) ==
    LET text == toString(err)
        error == IF includes(text, CapPhrase)
                 THEN <<"File exceeds max size of ">> \o bytes(k.args.maxBytes)
                 ELSE text
    IN [k EXCEPT !.error = Str(error), !.promise = reject(@, Str(error))]

readFile_onData_Prepend(k, chunk) == [k EXCEPT !.data = <<chunk>> \o @]

readFile_onData(k, chunk) == [k EXCEPT !.data = Append(@, chunk)]

readFile_onFinish(k) ==
    IF ~Truthy(k.error)
    THEN [k EXCEPT !.promise = resolve(@, Buf(BufferConcat(k.data)))]
    ELSE k

\* remoteFileStream.once('finish', ...): the listener is gone after one event.
readFile_emitFinish(k) ==
    IF k.finishListener
    THEN readFile_onFinish([k EXCEPT !.finishListener = FALSE])
    ELSE k

\* meter(maxBytes), a chunk written by the pipe: count it, pass it on, and
\* fail once the count is over the maximum; the failed limiter is unpiped.
meter_transform(k, chunk) ==
    IF ~k.meterOpen THEN k
    ELSE LET counted == [k EXCEPT !.meterBytes = @ + Len(chunk)]
             pushed == readFile_onData(counted, chunk)
         IN IF pushed.meterBytes > k.args.maxBytes.num
            THEN [readFile_onError(pushed, MeterError(k.args.maxBytes.num))
                  EXCEPT !.meterOpen = FALSE]
            ELSE pushed

\* meter(maxBytes), ended by the pipe when the remote stream ends.
meter_end(k) ==
    IF ~k.meterOpen THEN k
    ELSE readFile_emitFinish([k EXCEPT !.meterOpen = FALSE])

\* The remote read stream emits 'data'.
StreamData(c, chunk) ==
    /\ calls[c].op = "readFile"
    /\ Deliver(c, Event("data", Buf(chunk)),
               IF calls[c].metered
               THEN meter_transform(calls[c], chunk)
               ELSE readFile_onData(calls[c], chunk))

\* The remote read stream emits 'error'; pipe() does not forward it.
StreamError(c, err) ==
    /\ calls[c].op = "readFile"
    /\ Deliver(c, Event("error", err),
               IF calls[c].metered
               THEN calls[c]
               ELSE readFile_onError(calls[c], err))

\* The remote read stream signals its end.
StreamFinish(c) ==
    /\ calls[c].op = "readFile"
    /\ Deliver(c, Event("finish", Undefined),
               IF calls[c].metered
               THEN meter_end(calls[c])
               ELSE readFile_emitFinish(calls[c]))

\* ------------------------------------------------------------ readFileLines
readFileLines(c, path, maxLines) ==
    Start(c, NewCall("readFileLines", [path |-> path, maxLines |-> maxLines],
                     [method |-> "createReadStream", path |-> path]))

readFileLines_onClose_Inverted(k) ==
    IF Truthy(k.errorMsg)
    THEN [k EXCEPT !.promise = resolve(@, Buf(join(k.lineData, EOL)))]
    ELSE k

readFileLines_onClose(k) ==
    IF ~Truthy(k.errorMsg)
    THEN [k EXCEPT !.promise = resolve(@, Buf(join(k.lineData, EOL)))]
    ELSE k

\* readline's close(): emits 'close' once.
lineReader_close(k) ==
    IF k.readerClosed THEN k
    ELSE readFileLines_onClose([k EXCEPT !.readerClosed = TRUE])

readFileLines_onLine_NoLimit(k, line) ==
    [k EXCEPT !.lineCount = @ + 1, !.lineData = Append(@, line)]

readFileLines_onLine(k, line) ==
    LET counted == [k EXCEPT !.lineCount = @ + 1, !.lineData = Append(@, line)]
    IN IF counted.lineCount >= k.args.maxLines
       THEN lineReader_close(
                [counted EXCEPT !.promise =
                                   resolve(@, Buf(join(counted.lineData, EOL)))])
       ELSE counted

readFileLines_onError_CaptureOnly(k, err) ==
    [k EXCEPT !.errorMsg = Str(getErrorMessage(err))]

readFileLines_onError(k, err) ==
    LET errorMsg == Str(getErrorMessage(err))
    IN [k EXCEPT !.errorMsg = errorMsg, !.promise = reject(@, errorMsg)]

\* The line reader emits 'line' (also for lines it had read before close()).
ReaderLine(c, line) ==
    /\ calls[c].op = "readFileLines"
    /\ Deliver(c, Event("line", Str(line)), readFileLines_onLine(calls[c], line))

ReaderError(c, err) ==
    /\ calls[c].op = "readFileLines"
    /\ Deliver(c, Event("error", err), readFileLines_onError(calls[c], err))

\* The reader's input ended: readline calls close().
ReaderClose(c) ==
    /\ calls[c].op = "readFileLines"
    /\ Deliver(c, Event("close", Undefined), lineReader_close(calls[c]))

\* ------------------------------------------------------------ writeFile
writeFile(c, localFile, remoteDirPath) ==
    LET fileName == basename(localFile.path)
        remotePath == joinHdfsPath(remoteDirPath, fileName)
    IN Start(c, NewCall("writeFile",
                        [localFile |-> localFile, remoteDirPath |-> remoteDirPath],
                        [method |-> "createWriteStream", path |-> remotePath,
                         source |-> localFile.path]))

writeFile_onError_CaptureOnly(k, err) == [k EXCEPT !.error = err]

writeFile_onError(k, err) ==
    [k EXCEPT !.error = err, !.promise = reject(@, err)]

writeFile_onFinish(k, location) ==
    IF ~Truthy(k.error)
    THEN [k EXCEPT !.promise = resolve(@, location)]
    ELSE k

SinkError(c, err) ==
    /\ calls[c].op = "writeFile"
    /\ Deliver(c, Event("error", err), writeFile_onError(calls[c], err))

SinkFinish(c, location) ==
    /\ calls[c].op = "writeFile"
    /\ Deliver(c, Event("finish", location), writeFile_onFinish(calls[c], location))

\* ------------------------------------------------------------ specification
Next ==
    \E c \in CallIds :
        \/ \E path \in Paths : enumerateFiles(c, path)
        \/ \E dirName \in Names, base \in Paths : mkdir(c, dirName, base)
        \/ \E maxBytes \in MaxBytesArgs : readFile(c, <<"/", "p">>, maxBytes)
        \/ \E maxLines \in MaxLinesArgs : readFileLines(c, <<"/", "p">>, maxLines)
        \/ \E f \in LocalFiles, dir \in Paths : writeFile(c, f, dir)
        \/ \E path \in Paths, recursive \in RecursiveArgs : delete(c, path, recursive)
        \/ exists(c, <<"/", "p">>)
        \/ \E l \in Listings : ReaddirCallback(c, Null, l)
        \/ \E e \in Errors : ReaddirCallback(c, e, Undefined)
        \/ \E e \in {Null} \cup Errors : MkdirCallback(c, e)
        \/ \E e \in {Null} \cup Errors : RmdirCallback(c, e)
        \/ \E b \in BOOLEAN : ExistsCallback(c, b)
        \/ \E chunk \in Chunks : StreamData(c, chunk)
        \/ \E e \in Errors : StreamError(c, e)
        \/ StreamFinish(c)
        \/ \E line \in Lines : ReaderLine(c, line)
        \/ \E e \in Errors : ReaderError(c, e)
        \/ ReaderClose(c)
        \/ \E e \in Errors : SinkError(c, e)
        \/ \E loc \in Locations : SinkFinish(c, loc)

Spec == Init /\ [][Next]_vars

\* ------------------------------------------------------------ File functions
\* The static constructor functions of File, applied to a parent and a name.
FileParents ==
    {File(p, d) : p \in {hdfsRootPath, <<"/", "a">>, <<"/", "a", "/", "b">>},
                  d \in BOOLEAN}
FileNames == {<<"a">>, <<"x.txt">>, <<"/", "a">>, <<>>}

InitFile ==
    /\ calls = [c \in CallIds |-> Idle]
    /\ log = [c \in CallIds |-> <<>>]
    /\ nEvents = 0
    /\ fileIn \in [parent : FileParents, fileName : FileNames]
    /\ fileOut = Undefined
    /\ factory = Undefined

Returns(fn, isDirectory, value) ==
    /\ fileOut' = [fn |-> fn, isDirectory |-> isDirectory, value |-> value]
    /\ UNCHANGED <<calls, log, nEvents, fileIn, factory>>

CreateChild(isDirectory) ==
    Returns("createChild", isDirectory, createChild(fileIn.parent, fileIn.fileName, isDirectory))

CreateFile == Returns("createFile", FALSE, createFile(fileIn.parent, fileIn.fileName))

CreateDirectory ==
    Returns("createDirectory", TRUE, createDirectory(fileIn.parent, fileIn.fileName))

NextFile ==
    \/ \E d \in BOOLEAN : CreateChild(d)
    \/ CreateFile
    \/ CreateDirectory

SpecFile == InitFile /\ [][NextFile]_vars

\* ------------------------------------------------------------ the event log
OpCalls(op) == {c \in CallIds : calls[c].op = op}

\* Positions in call c's log of the events named ev.
Positions(c, ev) == {i \in 1..Len(log[c]) : log[c][i].ev = ev}

Min(S) == CHOOSE i \in S : \A j \in S : i <= j

\* Positions of the events named ev delivered before position n.
Before(c, ev, n) == {i \in Positions(c, ev) : i < n}

Settled(c) == calls[c].promise.state # "pending"
Resolved(c, v) == calls[c].promise = [state |-> "resolved", value |-> v]
Rejected(c, v) == calls[c].promise = [state |-> "rejected", value |-> v]

\* ------------------------------------------------------------ claims

\* C1: single settlement. Whatever callback or event the client delivers
\* next, and to whichever call, a promise that is resolved or rejected keeps
\* its outcome and its value.
C1_SingleSettlement ==
    [][\A c \in CallIds : Settled(c) => calls'[c].promise = calls[c].promise]_vars

\* C1 witness: a writeFile call resolved by 'finish' to which the sink then
\* delivered 'error' and a second 'finish' carrying another location.
C1_Witness ==
    \E c \in OpCalls("writeFile") :
        /\ Len(log[c]) = 3
        /\ log[c][1].ev = "finish" /\ log[c][2].ev = "error"
        /\ log[c][3].ev = "finish" /\ log[c][3].arg # log[c][1].arg
        /\ Resolved(c, log[c][1].arg)

\* C2: writeFile two-phase completion. The promise is resolved exactly when
\* the sink delivered a 'finish' with no 'error' before it, and then with the
\* location of the first 'finish'; when an 'error' came before every 'finish'
\* the promise is rejected with the first error, whatever 'finish' follows.
C2_WriteFileTwoPhase ==
    \A c \in OpCalls("writeFile") :
        LET errors == Positions(c, "error")
            finishes == Positions(c, "finish")
        IN /\ (finishes # {} /\ Before(c, "error", Min(finishes)) = {})
                => Resolved(c, log[c][Min(finishes)].arg)
           /\ (errors # {} /\ Before(c, "finish", Min(errors)) = {})
                => Rejected(c, log[c][Min(errors)].arg)
           /\ calls[c].promise.state = "resolved"
                => (finishes # {} /\ Before(c, "error", Min(finishes)) = {})

\* C2 witness: the sink delivered 'error' and then 'finish' carrying a
\* location, and the promise is rejected.
C2_Witness ==
    \E c \in OpCalls("writeFile") :
        /\ Len(log[c]) >= 2
        /\ log[c][1].ev = "error"
        /\ log[c][2] = Event("finish", Str(<<"/", "p", "/", "f">>))
        /\ calls[c].promise.state = "rejected"

\* ------------------------------------------------------------ readFile claims
\* The chunks the remote stream delivered to call c before position n.
RECURSIVE ChunksBefore(_, _)
ChunksBefore(c, n) ==
    IF n <= 1 THEN <<>>
    ELSE IF log[c][n - 1].ev = "data"
         THEN Append(ChunksBefore(c, n - 1), log[c][n - 1].arg.buf)
         ELSE ChunksBefore(c, n - 1)

\* The size of the source of call c: the bytes of the chunks delivered
\* before the stream's first end signal.
SourceBytes(c) == Len(BufferConcat(ChunksBefore(c, Min(Positions(c, "finish")))))

\* The message that names the maximum n.
CapMessage(n) == Str(<<"File exceeds max size of ", ToString(n) \o "B">>)

\* C3: readFile byte cap. A readFile call that was given a maxBytes (0
\* included) and whose source, read to its end, is larger than maxBytes is
\* rejected with the message naming maxBytes.
C3_ByteCap ==
    \A c \in OpCalls("readFile") :
        LET maxBytes == calls[c].args.maxBytes
        IN (/\ IsNum(maxBytes)
            /\ Positions(c, "finish") # {}
            /\ SourceBytes(c) > maxBytes.num)
           => Rejected(c, CapMessage(maxBytes.num))

\* C3, for the values of maxBytes the code pipes through the limiter (the
\* positive ones): the same statement.
C3_ByteCapPositive ==
    \A c \in OpCalls("readFile") :
        LET maxBytes == calls[c].args.maxBytes
        IN (/\ IsNum(maxBytes) /\ maxBytes.num > 0
            /\ Positions(c, "finish") # {}
            /\ SourceBytes(c) > maxBytes.num)
           => Rejected(c, CapMessage(maxBytes.num))

\* C4: readFile content. When the stream of a readFile call has ended, no
\* 'error' came before the end and the limiter, if there is one, did not
\* fail, the promise is resolved with the chunks delivered before the end,
\* concatenated in the order they arrived.
C4_ReadFileContent ==
    \A c \in OpCalls("readFile") :
        LET finishes == Positions(c, "finish")
        IN (/\ finishes # {}
            /\ Before(c, "error", Min(finishes)) = {}
            /\ calls[c].metered => SourceBytes(c) <= calls[c].args.maxBytes.num)
           => Resolved(c, Buf(BufferConcat(ChunksBefore(c, Min(finishes)))))

\* C4 witness: chunks "ab" and "c" arrived in that order, then 'finish', and
\* the promise is resolved with "abc".
C4_Witness ==
    \E c \in OpCalls("readFile") :
        /\ log[c] = << Event("data", Buf(<<"a", "b">>)), Event("data", Buf(<<"c">>)),
                       Event("finish", Undefined) >>
        /\ Resolved(c, Buf(<<"a", "b", "c">>))

\* ------------------------------------------------------------ readFileLines claims
\* The lines the reader delivered to call c before position n.
RECURSIVE LinesBefore(_, _)
LinesBefore(c, n) ==
    IF n <= 1 THEN <<>>
    ELSE IF log[c][n - 1].ev = "line"
         THEN Append(LinesBefore(c, n - 1), log[c][n - 1].arg.str)
         ELSE LinesBefore(c, n - 1)

\* The position of the m-th 'line' event of call c (m >= 1, and delivered).
NthLine(c, m) ==
    CHOOSE i \in Positions(c, "line") : Cardinality(Before(c, "line", i)) = m - 1

\* C5: readFileLines early termination. When maxLines >= 1 and the reader
\* delivered at least maxLines lines, with no 'error' and no end of input
\* before the maxLines-th, the promise is resolved with exactly the first
\* maxLines lines, in order, joined by the line terminator, whatever was
\* delivered after the maxLines-th line.
C5_EarlyTermination ==
    \A c \in OpCalls("readFileLines") :
        LET maxLines == calls[c].args.maxLines
        IN (/\ maxLines >= 1
            /\ Cardinality(Positions(c, "line")) >= maxLines
            /\ Before(c, "error", NthLine(c, maxLines)) = {}
            /\ Before(c, "close", NthLine(c, maxLines)) = {})
           => Resolved(c, Buf(join(LinesBefore(c, NthLine(c, maxLines) + 1), EOL)))

\* C5 witness: maxLines = 2, the reader delivered lines "x", "y" and then a
\* third line, and the promise is resolved with "x", EOL, "y".
C5_Witness ==
    \E c \in OpCalls("readFileLines") :
        /\ calls[c].args.maxLines = 2
        /\ log[c] = << Event("line", Str(<<"x">>)), Event("line", Str(<<"y">>)),
                       Event("line", Str(<<"x">>)) >>
        /\ Resolved(c, Buf(<<"x", EOL, "y">>))

\* C6: readFileLines natural close. When the reader's input ended after
\* n < maxLines lines (n = 0 included) and no 'error' came before the end,
\* the promise is resolved with those n lines, in order, joined by the line
\* terminator.
C6_NaturalClose ==
    \A c \in OpCalls("readFileLines") :
        LET closes == Positions(c, "close")
        IN (/\ closes # {}
            /\ Before(c, "error", Min(closes)) = {}
            /\ Cardinality(Before(c, "line", Min(closes))) < calls[c].args.maxLines)
           => Resolved(c, Buf(join(LinesBefore(c, Min(closes)), EOL)))

\* C6 witness: maxLines = 2, one line "y" and then the end of input; the
\* promise is resolved with "y". And a call whose input ended with no line,
\* resolved with the empty buffer.
C6_Witness ==
    /\ \E c \in OpCalls("readFileLines") :
          /\ calls[c].args.maxLines = 2
          /\ log[c] = <<Event("line", Str(<<"y">>)), Event("close", Undefined)>>
          /\ Resolved(c, Buf(<<"y">>))
    /\ \E c \in OpCalls("readFileLines") :
          /\ log[c] = <<Event("close", Undefined)>>
          /\ Resolved(c, Buf(<<>>))

\* ------------------------------------------------------------ callback claims
\* C7: enumerateFiles mapping. When the first readdir callback reports no
\* error and the entries e1..en, the promise is resolved with n File values
\* in the same order, the i-th with path = join(path, ei.pathSuffix) and
\* isDirectory true exactly when ei.type is DIRECTORY.
C7_EnumerateMapping ==
    \A c \in OpCalls("enumerateFiles") :
        (Len(log[c]) >= 1 /\ log[c][1].arg.error = Null) =>
            LET entries == log[c][1].arg.files
                path == calls[c].args.path
            IN /\ calls[c].promise.state = "resolved"
               /\ DOMAIN calls[c].promise.value = {"files"}
               /\ LET result == calls[c].promise.value.files
                  IN /\ Len(result) = Len(entries)
                     /\ \A i \in 1..Len(entries) :
                           /\ result[i].path = joinHdfsPath(path, entries[i].pathSuffix)
                           /\ result[i].isDirectory <=> entries[i].type = "DIRECTORY"

\* C7 witness: enumerateFiles("/p") whose listing was [{DIRECTORY, "d"},
\* {FILE, "f"}] is resolved with [File("/p/d", true), File("/p/f", false)].
C7_Witness ==
    \E c \in OpCalls("enumerateFiles") :
        /\ calls[c].args.path = <<"/", "p">>
        /\ Len(log[c]) >= 1
        /\ log[c][1].arg.files =
              << HdfsFileStatus("DIRECTORY", <<"d">>), HdfsFileStatus("FILE", <<"f">>) >>
        /\ Resolved(c, FileList(<< File(<<"/", "p", "/", "d">>, TRUE),
                                   File(<<"/", "p", "/", "f">>, FALSE) >>))

\* C8: exists never rejects. The promise of an exists call is never rejected,
\* and once the client's callback has run it is resolved with exactly the
\* boolean the callback reported first.
C8_ExistsNeverRejects ==
    \A c \in OpCalls("exists") :
        /\ calls[c].promise.state # "rejected"
        /\ Len(log[c]) >= 1 => Resolved(c, log[c][1].arg)

\* C8 witness: the callback reported false and the promise is resolved with
\* false.
C8_Witness ==
    \E c \in OpCalls("exists") :
        /\ Len(log[c]) >= 1
        /\ log[c][1].arg = Bool(FALSE)
        /\ Resolved(c, Bool(FALSE))

\* C9: delete default. A delete call with recursive omitted issues rmdir with
\* the same path and recursive = false as a delete call of that path with
\* recursive = false does, and the two calls, given the same callbacks, hold
\* the same promise.
C9_DeleteDefault ==
    \A c \in OpCalls("delete") : \A d \in OpCalls("delete") :
        (/\ calls[c].args.path = calls[d].args.path
         /\ calls[c].args.recursive = Undefined
         /\ calls[d].args.recursive = Bool(FALSE))
        => /\ calls[c].request = calls[d].request
           /\ calls[c].request =
                 [method |-> "rmdir", path |-> calls[c].args.path, recursive |-> FALSE]
           /\ log[c] = log[d] => calls[c].promise = calls[d].promise

\* C9 witness: delete(path) and delete(path, false) both in flight, each
\* having received the same callback.
C9_Witness ==
    \E c \in OpCalls("delete") : \E d \in OpCalls("delete") :
        /\ calls[c].args.path = calls[d].args.path
        /\ calls[c].args.recursive = Undefined
        /\ calls[d].args.recursive = Bool(FALSE)
        /\ Len(log[c]) >= 1
        /\ log[c] = log[d]
        /\ Settled(c)

\* ------------------------------------------------------------ path joiner claims
\* A path that begins with two separators.
DoubledLeadingSeparator(path) ==
    Len(path) >= 2 /\ path[1] = "/" /\ path[2] = "/"

BeginsWithSeparator(name) == name # <<>> /\ name[1] = "/"

\* What the claim says join(parent, child) is.
JoinAsSpecified(parent, child) ==
    IF parent = hdfsRootPath THEN <<"/">> \o child ELSE parent \o <<"/">> \o child

\* The File a constructor function returned has path = join(parent.path,
\* name) and the directory flag of that function.
BuiltAsSpecified ==
    /\ fileOut.value.path = JoinAsSpecified(fileIn.parent.path, fileIn.fileName)
    /\ fileOut.value.isDirectory = fileOut.isDirectory
    /\ fileOut.fn = "createFile" => ~fileOut.value.isDirectory
    /\ fileOut.fn = "createDirectory" => fileOut.value.isDirectory

\* C10 as stated: every File built by createChild, createFile or
\* createDirectory has path = join(parent.path, name) and the function's
\* directory flag, and for every child the path built under the root has no
\* doubled leading separator.
C10_PathJoinerAnyChild ==
    fileOut # Undefined =>
        /\ BuiltAsSpecified
        /\ fileIn.parent.path = hdfsRootPath
              => ~DoubledLeadingSeparator(fileOut.value.path)

\* C10 as amended: the same, the doubled leading separator being excluded
\* for the children that do not themselves begin with the separator.
C10_PathJoiner ==
    fileOut # Undefined =>
        /\ BuiltAsSpecified
        /\ (fileIn.parent.path = hdfsRootPath /\ ~BeginsWithSeparator(fileIn.fileName))
              => ~DoubledLeadingSeparator(fileOut.value.path)

\* C10 witness: createFile under the root with the name "a" returned
\* File("/a", false).
C10_Witness ==
    /\ fileOut # Undefined
    /\ fileOut.fn = "createFile"
    /\ fileIn.parent.path = hdfsRootPath
    /\ fileIn.fileName = <<"a">>
    /\ fileOut.value = File(<<"/", "a">>, FALSE)

\* ------------------------------------------------------------ settlement claims
\* The client delivered a terminal signal to call c: the callback of
\* readdir, mkdir, rmdir or exists, or 'error', 'finish' or the reader's
\* 'close' of the stream created for the call.
TerminalDelivered(c) ==
    \E i \in 1..Len(log[c]) : log[c][i].ev \in {"callback", "error", "finish", "close"}

\* C12: eventual settlement. A call to which the client has delivered a
\* terminal signal is settled.
C12_SettledAfterTerminal ==
    \A c \in CallIds : TerminalDelivered(c) => Settled(c)

\* C12, the calls apart whose stream is piped through the limiter: the same
\* statement.
C12_SettledAfterTerminalUnpiped ==
    \A c \in CallIds : (TerminalDelivered(c) /\ ~calls[c].metered) => Settled(c)

\* The limiter of call c, if any, had not failed before position n.
NoCapFailureBefore(c, n) ==
    calls[c].metered =>
        Len(BufferConcat(ChunksBefore(c, n))) <= calls[c].args.maxBytes.num

\* C13: readFile error path. When the stream of a readFile call, with or
\* without maxBytes, reports an error while the promise is pending, the
\* promise is rejected: with the error's text, or, when that text has the
\* cap-exceeded phrase, with the message naming maxBytes; no later 'finish'
\* resolves it.
C13_ReadFileErrorPath ==
    \A c \in OpCalls("readFile") :
        LET errors == Positions(c, "error")
        IN (/\ errors # {}
            /\ Before(c, "finish", Min(errors)) = {}
            /\ NoCapFailureBefore(c, Min(errors)))
           => LET text == toString(log[c][Min(errors)].arg)
              IN IF includes(text, CapPhrase)
                 THEN Rejected(c, Str(<<"File exceeds max size of ">>
                                         \o bytes(calls[c].args.maxBytes)))
                 ELSE Rejected(c, Str(text))

\* C13, for the calls whose stream is not piped through the limiter: the
\* same statement.
C13_ReadFileErrorPathUnpiped ==
    \A c \in OpCalls("readFile") :
        LET errors == Positions(c, "error")
        IN (/\ ~calls[c].metered
            /\ errors # {}
            /\ Before(c, "finish", Min(errors)) = {})
           => LET text == toString(log[c][Min(errors)].arg)
              IN IF includes(text, CapPhrase)
                 THEN Rejected(c, Str(<<"File exceeds max size of ">>
                                         \o bytes(calls[c].args.maxBytes)))
                 ELSE Rejected(c, Str(text))

\* C14: readFileLines error path. When the reader reports an error before
\* the input ended and before maxLines lines were delivered, the promise is
\* rejected with the normalized message of that error, whatever 'close' or
\* other event follows.
C14_ReadFileLinesErrorPath ==
    \A c \in OpCalls("readFileLines") :
        LET errors == Positions(c, "error")
        IN (/\ errors # {}
            /\ Before(c, "close", Min(errors)) = {}
            /\ Cardinality(Before(c, "line", Min(errors))) < calls[c].args.maxLines)
           => Rejected(c, Str(getErrorMessage(log[c][Min(errors)].arg)))

\* C14 witness: maxLines = 2, the reader delivered the line "x", the error
\* "boom" and then 'close'; the promise is rejected with "boom".
C14_Witness ==
    \E c \in OpCalls("readFileLines") :
        /\ calls[c].args.maxLines = 2
        /\ log[c] = << Event("line", Str(<<"x">>)), Event("error", ErrorObj(<<"boom">>)),
                       Event("close", Undefined) >>
        /\ Rejected(c, Str(<<"boom">>))

\* The line counter of call c has reached maxLines and its reader is closed.
LimitReached(c) ==
    /\ calls[c].op = "readFileLines"
    /\ calls[c].readerClosed
    /\ calls[c].lineCount >= calls[c].args.maxLines

\* C15 as stated: once the counter has reached maxLines and the reader is
\* closed, no event changes the counter, the line buffer or the promise.
C15_NoEventHonored ==
    [][\A c \in CallIds :
          LimitReached(c) =>
              /\ calls'[c].lineCount = calls[c].lineCount
              /\ calls'[c].lineData = calls[c].lineData
              /\ calls'[c].promise = calls[c].promise]_vars

\* C15 as amended: once the counter has reached maxLines and the reader is
\* closed, no event changes the promise (a later line event still raises the
\* counter and extends the line buffer).
C15_ResultKept ==
    [][\A c \in CallIds :
          LimitReached(c) => calls'[c].promise = calls[c].promise]_vars

\* C15 witness: maxLines = 1; after the line "x" the reader delivered the
\* line "y" and an error: the counter is 2 and the promise is still resolved
\* with "x".
C15_Witness ==
    \E c \in OpCalls("readFileLines") :
        /\ calls[c].args.maxLines = 1
        /\ log[c] = << Event("line", Str(<<"x">>)), Event("line", Str(<<"y">>)),
                       Event("error", ErrorObj(<<"boom">>)) >>
        /\ LimitReached(c)
        /\ calls[c].lineCount = 2
        /\ Resolved(c, Buf(<<"x">>))

\* C16: rejection shapes. On a client error enumerateFiles is rejected with
\* the error's message text, mkdir and delete with the error itself; on
\* success mkdir and delete are resolved with no value; mkdir is issued on
\* join(basePath, name).
C16_RejectionShapes ==
    /\ \A c \in OpCalls("enumerateFiles") :
          (Len(log[c]) >= 1 /\ Truthy(log[c][1].arg.error))
              => Rejected(c, Str(log[c][1].arg.error.message))
    /\ \A c \in OpCalls("mkdir") :
          /\ calls[c].request =
                [method |-> "mkdir",
                 path |-> joinHdfsPath(calls[c].args.remoteBasePath, calls[c].args.dirName)]
          /\ Len(log[c]) >= 1 =>
                IF log[c][1].arg = Null
                THEN Resolved(c, Undefined)
                ELSE Rejected(c, log[c][1].arg)
    /\ \A c \in OpCalls("delete") :
          Len(log[c]) >= 1 =>
              IF log[c][1].arg = Null
              THEN Resolved(c, Undefined)
              ELSE Rejected(c, log[c][1].arg)

\* C16 witness: the client failed an enumerateFiles call and a mkdir call
\* with the error "boom"; the first is rejected with the text "boom", the
\* second with the error.
C16_Witness ==
    /\ \E c \in OpCalls("enumerateFiles") : Rejected(c, Str(<<"boom">>))
    /\ \E c \in OpCalls("mkdir") : Rejected(c, ErrorObj(<<"boom">>))

\* Two calls of the same stream operation with the same arguments that
\* received the same events are in the same state.
SameHistorySameState ==
    \A c \in CallIds : \A d \in CallIds :
        (/\ calls[c].op = calls[d].op
         /\ calls[c].op \in {"readFile", "readFileLines", "writeFile"}
         /\ calls[c].args = calls[d].args
         /\ log[c] = log[d])
        => calls[c] = calls[d]

\* C19: isolation of overlapping calls. A callback or event delivered to one
\* call, and the start of another call, leave every other call as it was:
\* its error, buffers, counter and promise; so a call's state is decided by
\* its own arguments and events.
C19_Isolation ==
    /\ [][\A c \in CallIds :
             (calls[c].op # "idle" /\ log'[c] = log[c]) => calls'[c] = calls[c]]_vars
    /\ []SameHistorySameState

\* C19 witness: two readFile calls in flight, each having received its own
\* chunk, hold different buffers.
C19_Witness ==
    /\ calls[1].op = "readFile" /\ calls[2].op = "readFile"
    /\ calls[1].data = << <<"a", "b">> >>
    /\ calls[2].data = << <<"c">> >>

\* The number of lines a buffer of non-empty lines joined by EOL holds.
CountLines(text) ==
    IF text = <<>> THEN 0
    ELSE 1 + Cardinality({i \in 1..Len(text) : text[i] = EOL})

\* C20: readFileLines line bound. The value a readFileLines call is resolved
\* with holds at most maxLines lines, for every maxLines >= 0.
C20_LineBound ==
    \A c \in OpCalls("readFileLines") :
        calls[c].promise.state = "resolved"
            => CountLines(calls[c].promise.value.buf) <= calls[c].args.maxLines

\* C20, for maxLines >= 1: the same statement.
C20_LineBoundPositive ==
    \A c \in OpCalls("readFileLines") :
        (calls[c].promise.state = "resolved" /\ calls[c].args.maxLines >= 1)
            => CountLines(calls[c].promise.value.buf) <= calls[c].args.maxLines

\* ------------------------------------------------------------ FileSourceFactory
NaN == [nan |-> TRUE]

\* String.prototype.indexOf, zero-based, -1 when the token is absent.
indexOf(text, token) ==
    IF includes(text, token)
    THEN Min({i \in 1..Len(text) : text[i] = token}) - 1
    ELSE -1

\* String.prototype.slice(0, end)
slice(text, end) == SubSeq(text, 1, end)

\* String.prototype.replace(pattern, ''): the first occurrence of the
\* pattern is removed.
replace(text, pattern) ==
    LET at == {i \in 1..(Len(text) - Len(pattern) + 1) :
                  SubSeq(text, i, i + Len(pattern) - 1) = pattern}
    IN IF at = {} THEN text
       ELSE SubSeq(text, 1, Min(at) - 1)
                \o SubSeq(text, Min(at) + Len(pattern), Len(text))

IsDigit(ch) == ch \in {"0", "1", "2", "3", "4", "5", "6", "7", "8", "9"}

DigitValue(ch) == CHOOSE n \in 0..9 : ToString(n) = ch

\* The digits a text begins with.
RECURSIVE DigitPrefix(_)
DigitPrefix(text) ==
    IF text # <<>> /\ IsDigit(text[1])
    THEN <<text[1]>> \o DigitPrefix(Tail(text))
    ELSE <<>>

RECURSIVE DecimalValue(_)
DecimalValue(digits) ==
    IF digits = <<>> THEN 0
    ELSE 10 * DecimalValue(SubSeq(digits, 1, Len(digits) - 1))
             + DigitValue(digits[Len(digits)])

\* Number.parseInt: the number the leading digits spell, NaN without any.
parseInt(text) ==
    IF DigitPrefix(text) = <<>> THEN NaN ELSE Num(DecimalValue(DigitPrefix(text)))

setHostAndPort_LastOccurrence(options, delimeter) ==
    LET optionsHost == options.host.str
        last == CHOOSE i \in 1..Len(optionsHost) :
                    /\ optionsHost[i] = delimeter
                    /\ \A j \in (i + 1)..Len(optionsHost) : optionsHost[j] # delimeter
    IN IF includes(optionsHost, delimeter)
       THEN [options EXCEPT
                !.host = Str(SubSeq(optionsHost, 1, last - 1)),
                !.port = parseInt(SubSeq(optionsHost, last + 1, Len(optionsHost)))]
       ELSE options

setHostAndPort(options, delimeter) ==
    LET optionsHost == options.host.str
    IN IF indexOf(optionsHost, delimeter) > -1
       THEN LET host == slice(optionsHost, indexOf(optionsHost, delimeter))
            IN [options EXCEPT
                   !.host = Str(host),
                   !.port = parseInt(replace(optionsHost, host \o <<delimeter>>))]
       ELSE options

Delimiters_ColonFirst == <<":", ",">>

\* The delimiters removePortFromHost splits at, in its order.
Delimiters == <<",", ":">>

removePortFromHost(options) ==
    setHostAndPort(setHostAndPort(options, Delimiters[1]), Delimiters[2])

\* new https.Agent(agentOptions)
Agent(agentOptions) == [agent |-> agentOptions]

\* webhdfs.createClient(options, requestParams)
createClient(options, requestParams) ==
    [client |-> [options |-> options, requestParams |-> requestParams]]

\* The options a caller hands to createHdfsFileSource.
HostChars == {"h", "1", "2", ",", ":"}
HostTexts == UNION {[1..n -> HostChars] : n \in 0..MaxHostLen}
Credentials == [user |-> <<"u">>, pass |-> <<"p">>]
CallerAgent == Agent([host |-> Str(<<"h">>), port |-> Num(9), path |-> <<"/", "x">>,
                      rejectUnauthorized |-> TRUE])
RequestParams ==
    { Undefined,
      [auth |-> Undefined, agent |-> Undefined],
      [auth |-> Credentials, agent |-> Undefined],
      [auth |-> Undefined, agent |-> CallerAgent] }
HdfsOptions ==
    [ host : {Undefined} \cup {Str(h) : h \in HostTexts},
      port : {Undefined, Num(9)},
      requestParams : RequestParams ]

InitFactory ==
    /\ calls = [c \in CallIds |-> Idle]
    /\ log = [c \in CallIds |-> <<>>]
    /\ nEvents = 0
    /\ fileIn = Undefined
    /\ fileOut = Undefined
    /\ \E o \in HdfsOptions :
          factory = [ pc |-> "start", given |-> o, options |-> o,
                      afterComma |-> Undefined,
                      requestParams |-> Undefined, built |-> Undefined,
                      client |-> Undefined ]

FactoryStep(f) ==
    /\ factory' = f
    /\ UNCHANGED <<calls, log, nEvents, fileIn, fileOut>>

\* options.host is set: removePortFromHost, its split at ','.
SplitAtComma ==
    /\ factory.pc = "start"
    /\ Truthy(factory.options.host)
    /\ FactoryStep([factory EXCEPT !.pc = "comma",
                                   !.options = setHostAndPort(@, Delimiters[1]),
                                   !.afterComma =
                                       setHostAndPort(factory.options, Delimiters[1])])

\* removePortFromHost, its split at ':'.
SplitAtColon ==
    /\ factory.pc = "comma"
    /\ FactoryStep([factory EXCEPT !.pc = "normalized",
                                   !.options = setHostAndPort(@, Delimiters[2])])

\* options.host is not set: the options are used as given.
KeepOptions ==
    /\ factory.pc = "start"
    /\ ~Truthy(factory.options.host)
    /\ FactoryStep([factory EXCEPT !.pc = "normalized"])

\* requestParams and, with auth, the agent.
BuildAgent_BeforeNormalization(f) ==
    LET requestParams == IF Truthy(f.options.requestParams)
                         THEN f.options.requestParams
                         ELSE [auth |-> Undefined, agent |-> Undefined]
        agent == Agent([host |-> f.given.host, port |-> f.given.port,
                        path |-> hdfsRootPath, rejectUnauthorized |-> FALSE])
    IN IF Truthy(requestParams.auth)
       THEN [f EXCEPT !.pc = "agent", !.built = agent,
                      !.requestParams = [requestParams EXCEPT !.agent = agent]]
       ELSE [f EXCEPT !.pc = "agent", !.requestParams = requestParams]

BuildAgent(f) ==
    LET requestParams == IF Truthy(f.options.requestParams)
                         THEN f.options.requestParams
                         ELSE [auth |-> Undefined, agent |-> Undefined]
        agent == Agent([host |-> f.options.host, port |-> f.options.port,
                        path |-> hdfsRootPath, rejectUnauthorized |-> FALSE])
    IN IF Truthy(requestParams.auth)
       THEN [f EXCEPT !.pc = "agent", !.built = agent,
                      !.requestParams = [requestParams EXCEPT !.agent = agent]]
       ELSE [f EXCEPT !.pc = "agent", !.requestParams = requestParams]

PrepareRequestParams ==
    /\ factory.pc = "normalized"
    /\ FactoryStep(BuildAgent(factory))

\* new HdfsFileSource(webhdfs.createClient(options, requestParams))
CreateClient ==
    /\ factory.pc = "agent"
    /\ FactoryStep([factory EXCEPT
                       !.pc = "done",
                       !.client = createClient(factory.options, factory.requestParams)])

NextFactory ==
    \/ SplitAtComma
    \/ SplitAtColon
    \/ KeepOptions
    \/ PrepareRequestParams
    \/ CreateClient

SpecFactory == InitFactory /\ [][NextFactory]_vars

\* ------------------------------------------------------------ factory claims
\* The text before and after the first occurrence of a token the text holds.
BeforeFirst(text, token) ==
    SubSeq(text, 1, Min({i \in 1..Len(text) : text[i] = token}) - 1)

AfterFirst(text, token) ==
    SubSeq(text, Min({i \in 1..Len(text) : text[i] = token}) + 1, Len(text))

HasDelimiter(text) == includes(text, ",") \/ includes(text, ":")

\* The factory ran to its end on options whose host is a non-empty string.
FactoryDone == factory # Undefined /\ factory.pc = "done"
NormalizedRun == FactoryDone /\ Truthy(factory.given.host)

\* The text the port is parsed from: what follows the first ':' of the text
\* before the first ',', or else what follows the first ','.
PortText(host) ==
    LET head == IF includes(host, ",") THEN BeforeFirst(host, ",") ELSE host
    IN IF includes(head, ":") THEN AfterFirst(head, ":") ELSE AfterFirst(host, ",")

BeginsWithDigit(text) == text # <<>> /\ IsDigit(text[1])

\* C11 as stated: after the factory ran on a non-empty host, the host handed
\* to the client holds neither ',' nor ':', and whenever the given host held
\* a delimiter the port is a number.
C11_NormalizedNumericPort ==
    NormalizedRun =>
        LET handed == factory.client.client.options
        IN /\ ~HasDelimiter(handed.host.str)
           /\ HasDelimiter(factory.given.host.str) => IsNum(handed.port)

\* C11 as amended: the host handed to the client holds neither ',' nor ':',
\* and whenever the given host held a delimiter the port is a number if the
\* text after the delimiter of the last split that found one begins with a
\* digit, and NaN if it does not.
C11_Normalized ==
    NormalizedRun =>
        LET handed == factory.client.client.options
            given == factory.given.host.str
        IN /\ ~HasDelimiter(handed.host.str)
           /\ HasDelimiter(given) =>
                 IF BeginsWithDigit(PortText(given))
                 THEN IsNum(handed.port)
                 ELSE handed.port = NaN

\* C11 witness: the host "h,12" with the port 9 was normalized to the host
\* "h" and the port 12.
C11_Witness ==
    /\ FactoryDone
    /\ factory.given.host = Str(<<"h", ",", "1", "2">>)
    /\ factory.given.port = Num(9)
    /\ factory.client.client.options.host = Str(<<"h">>)
    /\ factory.client.client.options.port = Num(12)

\* What one split at a delimiter makes of the options.
SplitAsSpecified(before, after, delimiter) ==
    IF includes(before.host.str, delimiter)
    THEN /\ after.host = Str(BeforeFirst(before.host.str, delimiter))
         /\ after.port = parseInt(AfterFirst(before.host.str, delimiter))
         /\ after.requestParams = before.requestParams
    ELSE after = before

\* C17: delimiter precedence. The split at ',' is applied to the given
\* options and the split at ':' to its result; each cuts the host at the
\* first occurrence of its delimiter and overwrites the port, also a given
\* one, with the number parsed from the text after it, and changes nothing
\* when the host lacks the delimiter. With both delimiters the final host is
\* the text before the first delimiter of either kind.
C17_DelimiterPrecedence ==
    NormalizedRun =>
        LET given == factory.given
            final == factory.client.client.options
        IN /\ SplitAsSpecified(given, factory.afterComma, ",")
           /\ SplitAsSpecified(factory.afterComma, final, ":")
           /\ ~HasDelimiter(given.host.str) => final = given
           /\ (includes(given.host.str, ",") /\ includes(given.host.str, ":")) =>
                 /\ \E n \in 1..Len(given.host.str) :
                       /\ given.host.str[n] \in {",", ":"}
                       /\ \A i \in 1..(n - 1) : given.host.str[i] \notin {",", ":"}
                       /\ final.host = Str(SubSeq(given.host.str, 1, n - 1))
                 /\ final.port =
                       IF includes(factory.afterComma.host.str, ":")
                       THEN parseInt(AfterFirst(factory.afterComma.host.str, ":"))
                       ELSE factory.afterComma.port

\* C17 witness: the host ":1,2" with the given port 9: the split at ','
\* left the host ":1" and the port 2, the split at ':' the empty host and
\* the port 1.
C17_Witness ==
    /\ FactoryDone
    /\ factory.given.host = Str(<<":", "1", ",", "2">>)
    /\ factory.given.port = Num(9)
    /\ factory.afterComma.host = Str(<<":", "1">>)
    /\ factory.afterComma.port = Num(2)
    /\ factory.client.client.options.host = Str(<<>>)
    /\ factory.client.client.options.port = Num(1)

\* Whether the given options carry requestParams.auth.
AuthGiven ==
    /\ Truthy(factory.given.requestParams)
    /\ Truthy(factory.given.requestParams.auth)

\* C18: TLS agent construction. No agent exists before the host is
\* normalized; with auth, the agent is addressed at the normalized host and
\* port and the root path, with certificate validation off, and is
\* requestParams.agent before the client exists and in the client; without
\* auth no agent is built and requestParams.agent stays as given.
C18_TlsAgent ==
    factory # Undefined =>
        /\ factory.pc \in {"start", "comma", "normalized"} =>
              factory.built = Undefined /\ factory.requestParams = Undefined
        /\ factory.pc = "agent" => factory.client = Undefined
        /\ (factory.pc \in {"agent", "done"} /\ AuthGiven) =>
              /\ factory.built =
                    Agent([host |-> factory.options.host, port |-> factory.options.port,
                           path |-> hdfsRootPath, rejectUnauthorized |-> FALSE])
              /\ factory.requestParams.agent = factory.built
              /\ Truthy(factory.given.host) =>
                    ~HasDelimiter(factory.built.agent.host.str)
        /\ (factory.pc \in {"agent", "done"} /\ ~AuthGiven) =>
              /\ factory.built = Undefined
              /\ factory.requestParams.agent =
                    IF Truthy(factory.given.requestParams)
                    THEN factory.given.requestParams.agent
                    ELSE Undefined
        /\ factory.pc = "done" =>
              /\ factory.client.client.requestParams = factory.requestParams
              /\ factory.client.client.options = factory.options

\* C18 witness: with auth and the host "h:1" the client was built with an
\* agent addressed at the host "h" and the port 1.
C18_Witness ==
    /\ FactoryDone
    /\ AuthGiven
    /\ factory.given.host = Str(<<"h", ":", "1">>)
    /\ factory.client.client.requestParams.agent =
          Agent([host |-> Str(<<"h">>), port |-> Num(1),
                 path |-> hdfsRootPath, rejectUnauthorized |-> FALSE])

====
